---- MODULE Spec2Model ----
(***************************************************************************)
(* Model of the weather data-acquisition pipeline of weather-dashboard-aj: *)
(*   - WeatherAPI._respect_rate_limit and WeatherAPI._make_api_request     *)
(*     (src/core/api.py), run by one or two threads on one instance;       *)
(*   - WeatherDataValidator.validate_and_clean_current_weather             *)
(*     (src/core/data_validator.py) and its use by fetch_weather_data;     *)
(*   - WeatherAPI.get_coordinates, fetch_weather_data and                  *)
(*     fetch_comprehensive_weather with the three forecast tiers           *)
(*     (src/core/api.py), and _validate_daily_forecast_day.                *)
(* Time is counted in whole seconds.  Numeric payload values are fixed     *)
(* point, in hundredths of the unit (21315 is 213.15).                     *)
(***************************************************************************)
EXTENDS Integers, Sequences, FiniteSets, TLC

\* ------------------------------------------------------------------------
\* Bounds of the model
\* ------------------------------------------------------------------------
MaxRetriesCfg == 5      \* largest configured max_retries
MaxIntervalCfg == 2     \* largest configured min_request_interval (seconds)
MaxRequests == 3        \* requests the thread issues in a behaviour
MaxRequestsMT == 1      \* requests each of two threads issues in a behaviour
MaxElapse == 1          \* idle seconds that pass in a behaviour
MaxRetriesMT == 2       \* largest configured max_retries when two threads run

Threads == {1, 2}

\* ------------------------------------------------------------------------
\* Program constants
\* ------------------------------------------------------------------------
retry_delays == <<1, 2, 4>>
Cooldown == 60

NoneVal == "None"

Min(a, b) == IF a < b THEN a ELSE b
Max(a, b) == IF a > b THEN a ELSE b

\* Outcomes of session.get: a status code ("500" stands for every status the
\* code has no branch for), or a raised requests.exceptions.RequestException
\* (Timeout and ConnectionError are subclasses; the three handlers only log).
Responses == {"200", "401", "404", "429", "500", "RequestException"}

ErrInvalidKey == "Invalid API key"
ErrNotFound == "Location not found"
ErrFailed == "API request failed after retries"
Payload == "payload"

VARIABLES
    max_retries,            \* Config.max_retries
    min_request_interval,   \* Config.min_request_interval
    since_last,             \* clock: time.time() - last_request_time
    since_http,             \* clock: time since the last outbound HTTP request
    pc,                     \* per thread: position in _make_api_request
    attempt,                \* per thread: loop variable of the retry loop
    remaining,              \* per thread: what is left of the current time.sleep
    slept,                  \* per thread: the limiter slept in this call
    result,                 \* per thread: value returned by the last call
    trace,                  \* per thread: HTTP attempts and sleeps of the call
    reqs,                   \* per thread: calls the caller still has to make
    elapsed,                \* idle seconds passed so far
    httpCount, httpGap,     \* outbound HTTP requests: how many (up to 2), last spacing
    leaveCount, leaveGap,   \* returns of _respect_rate_limit: same
    rlRun, rlRunSleeps      \* current run of back-to-back limiter calls

apiVars == <<max_retries, min_request_interval, since_last, since_http, pc,
             attempt, remaining, slept, result, trace, reqs, elapsed,
             httpCount, httpGap, leaveCount, leaveGap, rlRun, rlRunSleeps>>

VARIABLES
    units,          \* WeatherAPI.units, the validator's temperature_unit
    raw_data,       \* the decoded current-conditions payload
    vpc,            \* "off", "input", or the operation applied to raw_data
    cleaned,        \* what validate_and_clean_current_weather returned, or
                    \* the record validate_weather_data was given and its verdict
    fetched         \* what the fetch returned for raw_data

valVars == <<units, raw_data, vpc, cleaned, fetched>>

VARIABLES
    fpc,            \* position in the fetch: "off", "geocoding", "current",
                    \* "climate", "rolling", "done"
    method,         \* "fetch_weather_data" or "fetch_comprehensive_weather"
    now,            \* datetime.now().timestamp() during the fetch
    calls,          \* endpoints requested so far, in order
    tries,          \* calls of the function body made by retry_on_failure
    geocoding_raw,  \* raw_data of get_coordinates: what its request returned
    coords,         \* what get_coordinates returned
    current_data,   \* what the current-conditions request returned
    forecast_data,  \* what the climate request returned
    fallback_data,  \* what the rolling 5-day request returned
    set_order,      \* iteration order of the sets of strings the rolling tier
                    \* builds: fixed by the interpreter's string hashes
    out             \* what the fetch returned, or that it raised

fetchVars == <<fpc, method, now, calls, tries, geocoding_raw, coords, current_data,
               forecast_data, fallback_data, set_order, out>>

VARIABLES
    dpc,            \* "off", "input" or "validated"
    day_data,       \* one entry of a daily list, as decoded
    day_forecast    \* what _validate_daily_forecast_day returned for it

dayVars == <<dpc, day_data, day_forecast>>

VARIABLES
    wpc,            \* position in retry_on_failure's wrapper: "off", "call",
                    \* "sleep", "done"
    retry_args,     \* the decorator's max_retries, delay and backoff
    current_delay,  \* the wrapper's current_delay
    last_exception, \* the wrapper's last_exception
    func_results,   \* what each call of the wrapped function did, in order
    slept_for,      \* the durations the wrapper slept, in order
    wrapped         \* what the wrapper returned or raised

retryVars == <<wpc, retry_args, current_delay, last_exception, func_results,
               slept_for, wrapped>>

vars == <<apiVars, valVars, fetchVars, dayVars, retryVars>>

HttpEv(s) == [ev |-> "http", what |-> s, dur |-> 0]
SleepEv(k, d) == [ev |-> "sleep", what |-> k, dur |-> d]

\* ------------------------------------------------------------------------
\* JSON and Python values.  A number is fixed point, in hundredths; a humidity
\* that _clean_int has converted is a whole number.
\* ------------------------------------------------------------------------
JAbsent == [k |-> "absent", n |-> 0, s |-> <<>>]       \* the key is not there
JNull == [k |-> "null", n |-> 0, s |-> <<>>]           \* the key holds null
JNaN == [k |-> "nan", n |-> 0, s |-> <<>>]             \* the float NaN
JNum(x) == [k |-> "num", n |-> x, s |-> <<>>]          \* the number x / 100
JNumStr(x) == [k |-> "numstr", n |-> x, s |-> <<>>]    \* a string, the numeral of x / 100
JStr(str) == [k |-> "str", n |-> 0, s |-> str]         \* a string that is no numeral

PyNone == [k |-> "none", n |-> 0, s |-> <<>>]
PyFloat(x) == [k |-> "float", n |-> x, s |-> <<>>]
PyInt(i) == [k |-> "int", n |-> i, s |-> <<>>]
PyStr(str) == [k |-> "str", n |-> 0, s |-> str]

\* Python truthiness, as `not data.get(field)` uses it.
Truthy(v) ==
    CASE v.k = "none" -> FALSE
      [] v.k \in {"float", "int"} -> v.n # 0
      [] v.k = "str" -> v.s # <<>>

\* ------------------------------------------------------------------------
\* ValidationRules (src/core/data_validator.py)
\* ------------------------------------------------------------------------
min_temperature_celsius == -6000
max_temperature_celsius == 6000
min_temperature_fahrenheit == -7600
max_temperature_fahrenheit == 14000
min_temperature_kelvin == 21315
max_temperature_kelvin == 33315
min_humidity == 0
max_humidity == 100
min_pressure == 80000
max_pressure == 120000
max_wind_speed_metric == 20000
max_wind_speed_imperial == 45000

UnitSystems == {"imperial", "metric", "standard"}

\* ------------------------------------------------------------------------
\* WeatherDataValidator: the cleaning functions
\* ------------------------------------------------------------------------
RECURSIVE LStrip(_)
LStrip(str) == IF str # <<>> /\ Head(str) = " " THEN LStrip(Tail(str)) ELSE str

RECURSIVE RStrip(_)
RStrip(str) ==
    IF str # <<>> /\ str[Len(str)] = " " THEN RStrip(SubSeq(str, 1, Len(str) - 1)) ELSE str

\* str.strip()
Strip(str) == RStrip(LStrip(str))

\* _clean_string: str(value).strip(), None when that is empty.
clean_string(value) ==
    CASE value.k \in {"absent", "null"} -> PyNone
      [] value.k = "str" -> IF Strip(value.s) = <<>> THEN PyNone ELSE PyStr(Strip(value.s))
      [] OTHER -> PyStr(<<"#">>)

\* _clean_float: float(value); None for NaN and for what float() rejects.
clean_float(value) ==
    CASE value.k \in {"num", "numstr"} -> PyFloat(value.n)
      [] OTHER -> PyNone

\* int() of a float: the fraction is cut off, towards zero.
Truncate(x) == IF x >= 0 THEN x \div 100 ELSE -((-x) \div 100)

\* _clean_int: int(float(value)); None where float() or int() raises.
clean_int(value) ==
    CASE value.k \in {"num", "numstr"} -> PyInt(Truncate(value.n))
      [] OTHER -> PyNone

\* main_data.get(key), with main_data = raw_data.get('main', {}).
MainGet(raw, key) == IF raw.has_main THEN raw.main[key] ELSE JAbsent

\* weather_data.get('description'), with
\* weather_data = raw_data.get('weather', [{}])[0].
WeatherGet(raw) == IF raw.weather = "list" THEN raw.description ELSE JAbsent

\* raw_data.get('visibility', 10000)
VisibilityGet(raw) == IF raw.visibility.k = "absent" THEN JNum(1000000) ELSE raw.visibility

\* Lines 73-114: the fields the validation reads, the wind direction and the
\* visibility.
CleanedData(raw) ==
    [city |-> clean_string(raw.name),
     temperature |-> clean_float(MainGet(raw, "temp")),
     humidity |-> clean_int(MainGet(raw, "humidity")),
     pressure |-> clean_float(MainGet(raw, "pressure")),
     weather_description |-> clean_string(WeatherGet(raw)),
     wind_speed |-> clean_float(raw.wind_speed),
     wind_direction |-> clean_int(raw.wind_deg),
     visibility |-> clean_int(VisibilityGet(raw))]

NoData ==
    [city |-> PyNone, temperature |-> PyNone, humidity |-> PyNone,
     pressure |-> PyNone, weather_description |-> PyNone, wind_speed |-> PyNone,
     wind_direction |-> PyNone, visibility |-> PyNone]

\* Lines 174-185: the temperature bounds of the validator's unit system.
MinTemp(u) ==
    IF u = "imperial" THEN min_temperature_fahrenheit
    ELSE IF u = "metric" THEN min_temperature_celsius
    ELSE min_temperature_kelvin

MaxTemp(u) ==
    IF u = "imperial" THEN max_temperature_fahrenheit
    ELSE IF u = "metric" THEN max_temperature_celsius
    ELSE max_temperature_kelvin

\* Lines 208-213.
MaxWind(u) == IF u = "imperial" THEN max_wind_speed_imperial ELSE max_wind_speed_metric

\* Lines 165-169: `if not data.get(field)` for the three required fields.
RequiredPresent(data) ==
    /\ Truthy(data.city)
    /\ Truthy(data.temperature)
    /\ Truthy(data.weather_description)

\* _validate_weather_data
validate_weather_data_private(u, data) ==
    /\ RequiredPresent(data)
    /\ data.temperature.k # "none" =>
          (MinTemp(u) <= data.temperature.n /\ data.temperature.n <= MaxTemp(u))
    /\ data.humidity.k # "none" =>
          (min_humidity <= data.humidity.n /\ data.humidity.n <= max_humidity)
    /\ data.pressure.k # "none" =>
          (min_pressure <= data.pressure.n /\ data.pressure.n <= max_pressure)
    /\ data.wind_speed.k # "none" => ~(data.wind_speed.n > MaxWind(u))

\* validate_weather_data, the public validator (lines 493-552): the bounds
\* are the Fahrenheit ones for imperial and the Celsius ones otherwise.
validate_weather_data(u, data) ==
    /\ RequiredPresent(data)
    /\ data.temperature.k # "none" =>
          IF u = "imperial"
          THEN /\ min_temperature_fahrenheit <= data.temperature.n
               /\ data.temperature.n <= max_temperature_fahrenheit
          ELSE /\ min_temperature_celsius <= data.temperature.n
               /\ data.temperature.n <= max_temperature_celsius
    /\ data.humidity.k # "none" =>
          (min_humidity <= data.humidity.n /\ data.humidity.n <= max_humidity)
    /\ data.pressure.k # "none" =>
          (min_pressure <= data.pressure.n /\ data.pressure.n <= max_pressure)
    /\ data.wind_speed.k # "none" =>
          (0 <= data.wind_speed.n /\ data.wind_speed.n <= MaxWind(u))

\* validate_and_clean_current_weather: the cleaned record, or None when the
\* validation fails or the extraction raises (weather == [] at line 66).
validate_and_clean_current_weather(u, raw) ==
    IF raw.weather = "empty" THEN [valid |-> FALSE, data |-> NoData]
    ELSE IF validate_weather_data_private(u, CleanedData(raw))
         THEN [valid |-> TRUE, data |-> CleanedData(raw)]
         ELSE [valid |-> FALSE, data |-> NoData]

\* ------------------------------------------------------------------------
\* WeatherAPI: what the fetches do with the payload of the request
\* ------------------------------------------------------------------------
\* The dict is empty: falsy for `if raw_data`.
EmptyDict(raw) ==
    /\ raw.name.k = "absent"
    /\ ~raw.has_main
    /\ raw.weather = "absent"
    /\ raw.wind_speed.k = "absent"
    /\ raw.wind_deg.k = "absent"
    /\ raw.visibility.k = "absent"
    /\ ~raw.other

\* _validate_basic_structure
validate_basic_structure(raw) ==
    /\ raw.name.k # "absent"
    /\ raw.has_main
    /\ raw.weather # "absent"
    /\ raw.main["temp"].k # "absent"
    /\ raw.weather = "list"
    /\ raw.description.k # "absent"

ErrStructure == "Invalid API response structure"
ErrValidation == "Data validation failed"
ErrCurrentStructure == "Invalid current weather response structure"
ErrCurrentValidation == "Current weather data validation failed"

Returned(kind, err, data) == [kind |-> kind, error |-> err, data |-> data]

\* fetch_weather_data, lines 172-184, for a request that returned raw.
fetch_weather_data_tail(u, raw) ==
    IF ~EmptyDict(raw)
    THEN IF ~validate_basic_structure(raw)
         THEN Returned("error", ErrStructure, NoData)
         ELSE IF validate_and_clean_current_weather(u, raw).valid
              THEN Returned("record", "", validate_and_clean_current_weather(u, raw).data)
              ELSE Returned("error", ErrValidation, NoData)
    ELSE Returned("raw", "", NoData)

\* Variant: the structure check and the validator's verdict are ignored.
fetch_comprehensive_current_Unchecked(u, raw) ==
    Returned("record", "", CleanedData(raw))

\* fetch_comprehensive_weather, lines 293-302: an error, or on to the forecast.
fetch_comprehensive_current(u, raw) ==
    IF ~validate_basic_structure(raw)
    THEN Returned("error", ErrCurrentStructure, NoData)
    ELSE IF validate_and_clean_current_weather(u, raw).valid
         THEN Returned("record", "", validate_and_clean_current_weather(u, raw).data)
         ELSE Returned("error", ErrCurrentValidation, NoData)

NoPayload ==
    [name |-> JAbsent, has_main |-> FALSE,
     main |-> [temp |-> JAbsent, humidity |-> JAbsent, pressure |-> JAbsent],
     weather |-> "absent", description |-> JAbsent, wind_speed |-> JAbsent,
     wind_deg |-> JAbsent, visibility |-> JAbsent, other |-> FALSE]

\* No payload is being processed.
ValOff ==
    /\ units = "imperial"
    /\ raw_data = NoPayload
    /\ vpc = "off"
    /\ cleaned = [valid |-> FALSE, data |-> NoData]
    /\ fetched = Returned("none", "", NoData)

\* What a request returns to a fetch: _make_api_request's error dict, or the
\* decoded JSON body of a 200 answer.  kind is "none" before the request.
NoCoords == [kind |-> "none", error |-> "", len |-> 0, name |-> JAbsent]
NoCurrent == [kind |-> "none", error |-> "", raw |-> NoPayload]
NoForecast == [kind |-> "none", error |-> "", list |-> <<>>]
NoOrder == [conditions |-> <<>>, icons |-> <<>>, mains |-> <<>>]

\* What a fetch hands to its caller; kind "none" while it runs.
FetchReturned(kind, err, data, forecast) ==
    [kind |-> kind, error |-> err, data |-> data, forecast |-> forecast]

\* No fetch is running.
FetchOff ==
    /\ fpc = "off"
    /\ method = "none"
    /\ now = 0
    /\ calls = <<>>
    /\ tries = 0
    /\ geocoding_raw = NoCoords
    /\ coords = NoCoords
    /\ current_data = NoCurrent
    /\ forecast_data = NoForecast
    /\ fallback_data = NoForecast
    /\ set_order = NoOrder
    /\ out = FetchReturned("none", "", NoData, <<>>)

\* A day of a daily list by the keys the model follows, and the dict
\* _validate_daily_forecast_day builds from it (valid = FALSE stands for None).
NoDay ==
    [temp_min |-> JAbsent, temp_max |-> JAbsent, weather |-> "absent",
     humidity |-> JAbsent, pressure |-> JAbsent, wind_speed |-> JAbsent]

NoDayForecast ==
    [valid |-> FALSE, temp_min |-> PyNone, temp_max |-> PyNone,
     humidity |-> PyNone, pressure |-> PyNone, wind_speed |-> PyNone]

\* No day is being validated.
DayOff ==
    /\ dpc = "off"
    /\ day_data = NoDay
    /\ day_forecast = NoDayForecast

\* What a call of a function did: it returned a value, or raised.
NoOutcome == [kind |-> "none", value |-> "None"]

\* No wrapped function is running.
RetryOff ==
    /\ wpc = "off"
    /\ retry_args = [max_retries |-> 0, delay |-> 0, backoff |-> 0]
    /\ current_delay = 0
    /\ last_exception = "None"
    /\ func_results = <<>>
    /\ slept_for = <<>>
    /\ wrapped = NoOutcome

\* ------------------------------------------------------------------------
\* Time.  The code uses timestamps only through differences of time.time(),
\* so the model keeps the differences: clocks that grow with time and stop
\* growing at ClockCap, above every value they are compared with.
\* ------------------------------------------------------------------------
ClockCap == MaxIntervalCfg + 1

Later(clock, d) == Min(clock + d, ClockCap)

\* d seconds pass: clocks grow, sleeps shorten.
Advance(d) ==
    /\ since_last' = Later(since_last, d)
    /\ since_http' = Later(since_http, d)
    /\ remaining' = [u \in Threads |-> Max(remaining[u] - d, 0)]

\* ------------------------------------------------------------------------
\* WeatherAPI.__init__ / Config.__post_init__
\* ------------------------------------------------------------------------
ConfigOK(mr, mi) == mr >= 1 /\ mi >= 0

\* last_request_time = 0 while time.time() is epoch seconds: the clock starts
\* beyond every interval.
InitInstance ==
    /\ max_retries \in 0..MaxRetriesCfg
    /\ min_request_interval \in 0..MaxIntervalCfg
    /\ ConfigOK(max_retries, min_request_interval)
    /\ since_last = ClockCap
    /\ since_http = ClockCap
    /\ pc = [t \in Threads |-> "idle"]
    /\ attempt = [t \in Threads |-> 0]
    /\ remaining = [t \in Threads |-> 0]
    /\ slept = [t \in Threads |-> FALSE]
    /\ result = [t \in Threads |-> NoneVal]
    /\ trace = [t \in Threads |-> <<>>]
    /\ elapsed = 0
    /\ httpCount = 0 /\ httpGap = 0
    /\ leaveCount = 0 /\ leaveGap = 0
    /\ rlRun = 0 /\ rlRunSleeps = 0

InitApi ==
    /\ InitInstance
    /\ ValOff
    /\ FetchOff
    /\ DayOff
    /\ RetryOff
    /\ reqs = [t \in Threads |-> MaxRequests]

\* ------------------------------------------------------------------------
\* WeatherAPI._respect_rate_limit
\* ------------------------------------------------------------------------
\* The comparison of line 47 one second short.
RateLimitSleepTime_Short(time_since_last) ==
    IF time_since_last < min_request_interval - 1
    THEN min_request_interval - time_since_last
    ELSE 0

\* Lines 47-48: the sleep the limiter takes, 0 when enough time has passed.
RateLimitSleepTime(time_since_last) ==
    IF time_since_last < min_request_interval
    THEN min_request_interval - time_since_last
    ELSE 0

\* A caller enters _make_api_request, and with it the limiter (line 55).
StartRequest(t) ==
    /\ pc[t] \in {"idle", "returned"}
    /\ reqs[t] > 0
    /\ pc' = [pc EXCEPT ![t] = "rl_check"]
    /\ reqs' = [reqs EXCEPT ![t] = @ - 1]
    /\ trace' = [trace EXCEPT ![t] = <<>>]
    /\ result' = [result EXCEPT ![t] = NoneVal]
    /\ attempt' = [attempt EXCEPT ![t] = 0]
    /\ slept' = [slept EXCEPT ![t] = FALSE]
    /\ UNCHANGED <<max_retries, min_request_interval, since_last, since_http,
                   remaining, elapsed, httpCount, httpGap,
                   leaveCount, leaveGap, rlRun, rlRunSleeps>>
    /\ UNCHANGED <<valVars, fetchVars, dayVars, retryVars>>

\* Lines 46-50: read the clock and last_request_time, sleep if needed.
RLCheck(t) ==
    /\ pc[t] = "rl_check"
    /\ LET sleep_time == RateLimitSleepTime(since_last) IN
       IF sleep_time > 0
       THEN /\ pc' = [pc EXCEPT ![t] = "rl_sleep"]
            /\ remaining' = [remaining EXCEPT ![t] = sleep_time]
            /\ slept' = [slept EXCEPT ![t] = TRUE]
            /\ trace' = [trace EXCEPT ![t] = Append(@, SleepEv("rate", sleep_time))]
       ELSE /\ pc' = [pc EXCEPT ![t] = "rl_stamp"]
            /\ UNCHANGED <<remaining, slept, trace>>
    /\ UNCHANGED <<max_retries, min_request_interval, since_last, since_http,
                   attempt, result, reqs, elapsed, httpCount, httpGap,
                   leaveCount, leaveGap, rlRun, rlRunSleeps>>
    /\ UNCHANGED <<valVars, fetchVars, dayVars, retryVars>>

\* time.sleep(sleep_time) of the limiter returns (line 50).
RLWake(t) ==
    /\ pc[t] = "rl_sleep"
    /\ Advance(remaining[t])
    /\ pc' = [pc EXCEPT ![t] = "rl_stamp"]
    /\ UNCHANGED <<max_retries, min_request_interval, attempt, slept, result,
                   trace, reqs, elapsed, httpCount, httpGap,
                   leaveCount, leaveGap, rlRun, rlRunSleeps>>
    /\ UNCHANGED <<valVars, fetchVars, dayVars, retryVars>>

\* Line 51: last_request_time = time.time(); the limiter returns.
RLStamp(t) ==
    /\ pc[t] = "rl_stamp"
    /\ since_last' = 0
    /\ pc' = [pc EXCEPT ![t] = "attempt"]
    /\ leaveCount' = Min(leaveCount + 1, 2)
    /\ leaveGap' = since_last
    /\ rlRun' = rlRun + 1
    /\ rlRunSleeps' = IF slept[t] /\ rlRun >= 1 THEN rlRunSleeps + 1 ELSE rlRunSleeps
    /\ UNCHANGED <<max_retries, min_request_interval, since_http, attempt,
                   remaining, slept, result, trace, reqs, elapsed,
                   httpCount, httpGap>>
    /\ UNCHANGED <<valVars, fetchVars, dayVars, retryVars>>

\* ------------------------------------------------------------------------
\* WeatherAPI._make_api_request: the retry loop
\* ------------------------------------------------------------------------
\* Only 401 returns at once; 404 takes the retry path.
TerminalStatus_Only401(s) == s = "401"

\* Statuses answered by an immediate return of an error dict (lines 77-82).
TerminalStatus(s) == s \in {"401", "404"}

TerminalError(s) == IF s = "401" THEN ErrInvalidKey ELSE ErrNotFound

\* Line 98: a backoff sleep follows a failed attempt unless it was the last.
BackoffDue(a) == a < max_retries - 1

\* The unclamped doubling table: 8 seconds after the fourth failure.
BackoffDelay_Unclamped(a) ==
    IF a < Len(retry_delays) THEN retry_delays[a + 1] ELSE 2 * retry_delays[Len(retry_delays)]

\* Line 99: retry_delays[min(attempt, len(retry_delays) - 1)], 0-based.
BackoffDelay(a) == retry_delays[Min(a, Len(retry_delays) - 1) + 1]

\* The 429 branch without its continue: the backoff sleep follows the cooldown.
SleepsAfter_NoContinue(r, a) ==
    (IF r = "429" THEN <<SleepEv("cooldown", Cooldown)>> ELSE <<>>)
    \o (IF BackoffDue(a) THEN <<SleepEv("backoff", BackoffDelay(a))>> ELSE <<>>)

\* The sleeps that follow a failed attempt: on 429 the cooldown and then
\* continue (lines 83-86), else the backoff of lines 97-101.
SleepsAfter(r, a) ==
    IF r = "429" THEN <<SleepEv("cooldown", Cooldown)>>
    ELSE IF BackoffDue(a) THEN <<SleepEv("backoff", BackoffDelay(a))>>
    ELSE <<>>

RECURSIVE TotalSleep(_)
TotalSleep(evs) == IF evs = <<>> THEN 0 ELSE Head(evs).dur + TotalSleep(Tail(evs))

\* range(max_retries) with one value too many.
LoopContinues_OffByOne(a) == a + 1 <= max_retries

\* Line 59: the loop goes on while range(max_retries) has a next value.
LoopContinues(a) == a + 1 < max_retries

\* One iteration of the loop body: session.get answers r (lines 60-101).
Attempt(t, r) ==
    /\ pc[t] = "attempt"
    /\ httpCount' = Min(httpCount + 1, 2)
    /\ httpGap' = since_http
    /\ since_http' = 0
    /\ IF r = "200"
       THEN /\ result' = [result EXCEPT ![t] = Payload]
            /\ pc' = [pc EXCEPT ![t] = "returned"]
            /\ trace' = [trace EXCEPT ![t] = Append(@, HttpEv(r))]
            /\ UNCHANGED <<remaining, attempt>>
       ELSE IF TerminalStatus(r)
       THEN /\ result' = [result EXCEPT ![t] = TerminalError(r)]
            /\ pc' = [pc EXCEPT ![t] = "returned"]
            /\ trace' = [trace EXCEPT ![t] = Append(@, HttpEv(r))]
            /\ UNCHANGED <<remaining, attempt>>
       ELSE LET sleeps == SleepsAfter(r, attempt[t]) IN
            IF sleeps # <<>>
            THEN /\ pc' = [pc EXCEPT ![t] = "retry_sleep"]
                 /\ remaining' = [remaining EXCEPT ![t] = TotalSleep(sleeps)]
                 /\ trace' = [trace EXCEPT ![t] = Append(@, HttpEv(r)) \o sleeps]
                 /\ UNCHANGED <<result, attempt>>
            ELSE \* failure in the last iteration: the loop ends, lines 103-104
                 /\ result' = [result EXCEPT ![t] = ErrFailed]
                 /\ pc' = [pc EXCEPT ![t] = "returned"]
                 /\ trace' = [trace EXCEPT ![t] = Append(@, HttpEv(r))]
                 /\ UNCHANGED <<remaining, attempt>>
    /\ UNCHANGED <<max_retries, min_request_interval, since_last,
                   slept, reqs, elapsed, leaveCount, leaveGap,
                   rlRun, rlRunSleeps>>
    /\ UNCHANGED <<valVars, fetchVars, dayVars, retryVars>>

\* time.sleep of the retry loop returns (line 85 then continue, or line 101):
\* the loop takes its next value, or ends and line 104 returns the error.
RetryWake(t) ==
    /\ pc[t] = "retry_sleep"
    /\ Advance(remaining[t])
    /\ IF LoopContinues(attempt[t])
       THEN /\ attempt' = [attempt EXCEPT ![t] = @ + 1]
            /\ pc' = [pc EXCEPT ![t] = "attempt"]
            /\ UNCHANGED result
       ELSE /\ result' = [result EXCEPT ![t] = ErrFailed]
            /\ pc' = [pc EXCEPT ![t] = "returned"]
            /\ UNCHANGED attempt
    /\ rlRun' = 0
    /\ rlRunSleeps' = 0
    /\ UNCHANGED <<max_retries, min_request_interval, slept, trace, reqs,
                   elapsed, httpCount, httpGap, leaveCount, leaveGap>>
    /\ UNCHANGED <<valVars, fetchVars, dayVars, retryVars>>

\* A second passes in which no thread takes a step.
Elapse ==
    /\ elapsed < MaxElapse
    /\ elapsed' = elapsed + 1
    /\ Advance(1)
    /\ rlRun' = 0
    /\ rlRunSleeps' = 0
    /\ UNCHANGED <<max_retries, min_request_interval, pc, attempt, slept,
                   result, trace, reqs, httpCount, httpGap,
                   leaveCount, leaveGap>>
    /\ UNCHANGED <<valVars, fetchVars, dayVars, retryVars>>

ThreadStep(t) ==
    \/ StartRequest(t)
    \/ RLCheck(t)
    \/ RLWake(t)
    \/ RLStamp(t)
    \/ \E r \in Responses : Attempt(t, r)
    \/ RetryWake(t)

\* One thread uses the instance.
Next ==
    \/ ThreadStep(1)
    \/ Elapse

Spec == InitApi /\ [][Next]_vars

\* Two threads share the instance.
NextMT ==
    \/ \E t \in Threads : ThreadStep(t)
    \/ Elapse

InitMT ==
    /\ InitInstance
    /\ max_retries <= MaxRetriesMT
    /\ ValOff
    /\ FetchOff
    /\ DayOff
    /\ RetryOff
    /\ reqs = [t \in Threads |-> MaxRequestsMT]

SpecMT == InitMT /\ [][NextMT]_vars

\* ------------------------------------------------------------------------
\* Properties of _make_api_request and _respect_rate_limit
\* ------------------------------------------------------------------------
IsHttp(e) == e.ev = "http"
IsLoopSleep(e) == e.ev = "sleep" /\ e.what # "rate"

\* The responses a call has received, in order.
Statuses(tr) == [i \in 1..Len(SelectSeq(tr, IsHttp)) |-> SelectSeq(tr, IsHttp)[i].what]
\* The sleeps a call has taken inside its retry loop, in order.
LoopSleeps(tr) == SelectSeq(tr, IsLoopSleep)

Retryable == {"429", "500", "RequestException"}
RetryableNot429 == {"500", "RequestException"}

\* C1: an attempt answered 401 or 404 is the last event of its call: the call
\* has returned the matching error dict, and neither a further HTTP attempt
\* nor a sleep follows the response.
C1_TerminalStatus ==
    \A t \in Threads : \A i \in 1..Len(trace[t]) :
        (IsHttp(trace[t][i]) /\ trace[t][i].what \in {"401", "404"}) =>
            /\ i = Len(trace[t])
            /\ pc[t] = "returned"
            /\ result[t] = (IF trace[t][i].what = "401" THEN ErrInvalidKey ELSE ErrNotFound)

\* A 404 arrived on the third attempt of a call, after two retried failures.
C1_Witness ==
    /\ pc[1] = "returned"
    /\ Statuses(trace[1]) = <<"500", "429", "404">>
    /\ result[1] = ErrNotFound

\* The backoff table as the specification gives it: 1, 2, 4, then 4 again.
ExpectedBackoff(i) == IF i = 1 THEN 1 ELSE IF i = 2 THEN 2 ELSE 4

\* C2: a call whose first k attempts failed with a retryable condition other
\* than 429 and whose attempt k+1 got 200 returns the payload, with
\* k < max_retries, after exactly k sleeps in its retry loop, all of them
\* backoff sleeps, of 1, 2, 4, 4, ... seconds in this order.
C2_BackoffThenSuccess ==
    \A t \in Threads :
        LET st == Statuses(trace[t])
            k == Len(st) - 1
        IN  (/\ pc[t] = "returned"
             /\ Len(st) >= 1
             /\ st[Len(st)] = "200"
             /\ \A i \in 1..k : st[i] \in RetryableNot429)
            => /\ result[t] = Payload
               /\ k < max_retries
               /\ LoopSleeps(trace[t]) =
                    [i \in 1..k |-> SleepEv("backoff", ExpectedBackoff(i))]

\* Four failures, then success: the sleeps were 1, 2, 4 and 4 seconds.
C2_Witness ==
    /\ pc[1] = "returned"
    /\ result[1] = Payload
    /\ Statuses(trace[1]) = <<"500", "RequestException", "500", "RequestException", "200">>

\* C3: a call makes at most max_retries HTTP attempts, and has made at least
\* one when it returns; it returns the payload or an error dict; and when all
\* its attempts failed with a retryable condition it has made exactly
\* max_retries attempts and returns the request-failed error.
C3_BoundedAttempts ==
    \A t \in Threads :
        LET st == Statuses(trace[t]) IN
        /\ Len(st) <= max_retries
        /\ pc[t] = "attempt" => Len(st) < max_retries
        /\ pc[t] = "returned" =>
            /\ Len(st) >= 1
            /\ result[t] \in {Payload, ErrInvalidKey, ErrNotFound, ErrFailed}
            /\ (\A i \in 1..Len(st) : st[i] \in Retryable) =>
                  (Len(st) = max_retries /\ result[t] = ErrFailed)

\* A call has returned the error after max_retries = 3 failed attempts, of
\* which one a 429, one another status and one a transport error.
C3_Witness ==
    /\ max_retries = 3
    /\ pc[1] = "returned"
    /\ result[1] = ErrFailed
    /\ Statuses(trace[1]) = <<"429", "500", "RequestException">>

\* C4: a 429 is followed by the 60-second cooldown and by nothing else before
\* the next attempt; every response, 429 included, uses exactly one iteration
\* of the loop; and a call answered 429, 429, 200 returns the payload after
\* exactly 3 attempts and exactly 2 sleeps of its retry loop.
C4_Cooldown ==
    \A t \in Threads :
        LET tr == trace[t]
            st == Statuses(tr)
        IN
        /\ \A i \in 1..Len(tr) :
              (IsHttp(tr[i]) /\ tr[i].what = "429") =>
                  /\ i < Len(tr)
                  /\ tr[i + 1] = SleepEv("cooldown", 60)
                  /\ i + 1 < Len(tr) => IsHttp(tr[i + 2])
        /\ pc[t] = "attempt" => attempt[t] = Len(st)
        /\ (pc[t] = "returned" /\ st = <<"429", "429", "200">>) =>
              /\ result[t] = Payload
              /\ LoopSleeps(tr) = <<SleepEv("cooldown", 60), SleepEv("cooldown", 60)>>

\* Two 429 responses and then a 200.
C4_Witness ==
    /\ pc[1] = "returned"
    /\ result[1] = Payload
    /\ Statuses(trace[1]) = <<"429", "429", "200">>
    /\ Len(LoopSleeps(trace[1])) = 2

\* The call in progress or just returned has left the limiter.
PastLimiter(t) == pc[t] \in {"attempt", "retry_sleep", "returned"}

\* C5 as stated: with one thread, two consecutive returns of the limiter are
\* at least min_request_interval apart, and n back-to-back calls cause exactly
\* n - 1 sleeps of the limiter, each of the whole remainder of the interval.
C5_Original ==
    /\ leaveCount >= 2 => leaveGap >= min_request_interval
    /\ rlRun >= 1 => rlRunSleeps = rlRun - 1

\* C5, amended: with one thread, two consecutive returns of the limiter are at
\* least min_request_interval apart; when min_request_interval is positive, n
\* back-to-back calls cause exactly n - 1 sleeps of the limiter, and a call
\* made back-to-back after another sleeps the whole interval.
C5_RateLimit ==
    /\ leaveCount >= 2 => leaveGap >= min_request_interval
    /\ (min_request_interval > 0 /\ rlRun >= 1) => rlRunSleeps = rlRun - 1
    /\ (min_request_interval > 0 /\ rlRun >= 2 /\ PastLimiter(1)) =>
          /\ Len(trace[1]) >= 1
          /\ trace[1][1] = SleepEv("rate", min_request_interval)

\* Three back-to-back calls with a positive interval: two limiter sleeps.
C5_Witness ==
    /\ min_request_interval = 2
    /\ rlRun = 3
    /\ rlRunSleeps = 2
    /\ leaveGap = 2

\* C6: any two consecutive outbound HTTP requests of the instance are at
\* least min_request_interval apart.
C6_HttpSpacing == httpCount >= 2 => httpGap >= min_request_interval

\* C7: with two threads on one instance, any two consecutive returns of the
\* limiter are at least min_request_interval apart.
C7_LimiterSerialized == leaveCount >= 2 => leaveGap >= min_request_interval


\* ------------------------------------------------------------------------
\* The validator and the fetches applied to current-conditions payloads
\* ------------------------------------------------------------------------
TempInputs(u) ==
    {JAbsent, JNull, JNaN, JStr(<<"x">>), JNumStr((MinTemp(u) + MaxTemp(u)) \div 2)}
    \cup {JNum(x) : x \in {MinTemp(u) - 100, MinTemp(u) - 1, MinTemp(u), 0,
                           (MinTemp(u) + MaxTemp(u)) \div 2,
                           MaxTemp(u), MaxTemp(u) + 1, MaxTemp(u) + 100}}

HumidityInputs == {JAbsent} \cup {JNum(x) : x \in {-50, 0, 5000, 10000, 10050, 10100}}

PressureInputs == {JAbsent} \cup {JNum(x) : x \in {79999, 80000, 101300, 120000, 120001}}

WindInputs == {JAbsent} \cup {JNum(x) : x \in {-100, 20000, 20001, 45000, 45001}}

\* wind.deg and visibility of the payload: both missing, or a direction of
\* 400 degrees and a visibility of 5000 m.
ExtraInputs == {<<JAbsent, JAbsent>>, <<JNum(40000), JNum(500000)>>}

NameInputs == {JAbsent, JNull, JStr(<<" ">>), JStr(<<"P", " ">>)}

WeatherInputs ==
    {<<"absent", JAbsent>>, <<"empty", JAbsent>>, <<"list", JAbsent>>,
     <<"list", JStr(<<" ">>)>>, <<"list", JStr(<<"c">>)>>}

MainInputs(u) ==
    {<<FALSE, [temp |-> JAbsent, humidity |-> JAbsent, pressure |-> JAbsent]>>}
    \cup {<<TRUE, [temp |-> t, humidity |-> h, pressure |-> p]>> :
            t \in TempInputs(u), h \in HumidityInputs, p \in PressureInputs}

\* A request of a fetch has returned a decoded payload.
InitVal ==
    /\ units \in UnitSystems
    /\ \E nm \in NameInputs, m \in MainInputs(units), w \in WeatherInputs,
          ws \in WindInputs, x \in ExtraInputs, o \in BOOLEAN :
          /\ raw_data = [name |-> nm, has_main |-> m[1], main |-> m[2],
                         weather |-> w[1], description |-> w[2],
                         wind_speed |-> ws, wind_deg |-> x[1],
                         visibility |-> x[2], other |-> o]
          \* keys the model does not follow (dt, coord, ...) are there unless
          \* the payload is the empty dict
          /\ o = FALSE => EmptyDict(raw_data)
    /\ vpc = "input"
    /\ cleaned = [valid |-> FALSE, data |-> NoData]
    /\ fetched = Returned("none", "", NoData)
    /\ FetchOff
    /\ DayOff
    /\ RetryOff
    /\ max_retries = 1
    /\ min_request_interval = 0
    /\ since_last = ClockCap
    /\ since_http = ClockCap
    /\ pc = [t \in Threads |-> "idle"]
    /\ attempt = [t \in Threads |-> 0]
    /\ remaining = [t \in Threads |-> 0]
    /\ slept = [t \in Threads |-> FALSE]
    /\ result = [t \in Threads |-> NoneVal]
    /\ trace = [t \in Threads |-> <<>>]
    /\ reqs = [t \in Threads |-> 0]
    /\ elapsed = 0
    /\ httpCount = 0 /\ httpGap = 0
    /\ leaveCount = 0 /\ leaveGap = 0
    /\ rlRun = 0 /\ rlRunSleeps = 0

\* validator.validate_and_clean_current_weather(raw_data)
CleanCurrent ==
    /\ vpc = "input"
    /\ vpc' = "cleaned"
    /\ cleaned' = validate_and_clean_current_weather(units, raw_data)
    /\ UNCHANGED <<units, raw_data, fetched>>
    /\ UNCHANGED <<apiVars, fetchVars, dayVars, retryVars>>

\* fetch_weather_data from the return of its weather request on.
FetchWeatherData ==
    /\ vpc = "input"
    /\ vpc' = "fetch_weather_data"
    /\ fetched' = fetch_weather_data_tail(units, raw_data)
    /\ cleaned' = validate_and_clean_current_weather(units, raw_data)
    /\ UNCHANGED <<units, raw_data>>
    /\ UNCHANGED <<apiVars, fetchVars, dayVars, retryVars>>

\* fetch_comprehensive_weather from the return of its current-conditions
\* request to the start of the forecast requests.
FetchComprehensiveCurrent ==
    /\ vpc = "input"
    /\ vpc' = "fetch_comprehensive_weather"
    /\ fetched' = fetch_comprehensive_current(units, raw_data)
    /\ cleaned' = validate_and_clean_current_weather(units, raw_data)
    /\ UNCHANGED <<units, raw_data>>
    /\ UNCHANGED <<apiVars, fetchVars, dayVars, retryVars>>

\* validator.validate_weather_data(record) on the cleaned record of the
\* payload: cleaned holds the record and the validator's verdict.
ValidateRecord ==
    /\ vpc = "input"
    /\ raw_data.weather # "empty"
    /\ vpc' = "validate_weather_data"
    /\ cleaned' = [valid |-> validate_weather_data(units, CleanedData(raw_data)),
                   data |-> CleanedData(raw_data)]
    /\ UNCHANGED <<units, raw_data, fetched>>
    /\ UNCHANGED <<apiVars, fetchVars, dayVars, retryVars>>

NextVal ==
    \/ CleanCurrent
    \/ ValidateRecord
    \/ FetchWeatherData
    \/ FetchComprehensiveCurrent

SpecVal == InitVal /\ [][NextVal]_vars

\* The bound table of the specification, in hundredths.
SpecMinTemp(u) == IF u = "imperial" THEN -7600 ELSE IF u = "metric" THEN -6000 ELSE 21315
SpecMaxTemp(u) == IF u = "imperial" THEN 14000 ELSE IF u = "metric" THEN 6000 ELSE 33315
SpecMaxWind(u) == IF u = "imperial" THEN 45000 ELSE 20000

IsNumber(v) == v.k \in {"num", "numstr"}
InRange(v, lo, hi) == IsNumber(v) /\ lo <= v.n /\ v.n <= hi
Missing(v) == v.k = "absent"

PayloadTemp == MainGet(raw_data, "temp")
PayloadHumidity == MainGet(raw_data, "humidity")
PayloadPressure == MainGet(raw_data, "pressure")

\* Every field but the temperature is valid: a place name and a description
\* that are not blank, and humidity, pressure and wind speed absent or in range.
OtherFieldsValid ==
    /\ raw_data.name.k = "str" /\ Strip(raw_data.name.s) # <<>>
    /\ raw_data.weather = "list"
    /\ raw_data.description.k = "str" /\ Strip(raw_data.description.s) # <<>>
    /\ Missing(PayloadHumidity) \/ InRange(PayloadHumidity, 0, 10000)
    /\ Missing(PayloadPressure) \/ InRange(PayloadPressure, 80000, 120000)
    /\ Missing(raw_data.wind_speed) \/ InRange(raw_data.wind_speed, 0, SpecMaxWind(units))

\* C8: for a payload whose other fields are valid and whose temperature is a
\* number t, validate_and_clean_current_weather returns a record if and only
\* if t lies within the bounds of the unit system, the bounds included.
C8_TemperatureRange ==
    (vpc = "cleaned" /\ OtherFieldsValid /\ IsNumber(PayloadTemp)) =>
        (cleaned.valid <=>
            (SpecMinTemp(units) <= PayloadTemp.n /\ PayloadTemp.n <= SpecMaxTemp(units)))

\* The place name, the temperature or the description is absent.
RequiredAbsent ==
    \/ Missing(raw_data.name)
    \/ Missing(PayloadTemp)
    \/ raw_data.weather # "list"
    \/ Missing(raw_data.description)

\* C9: when the place name, the temperature or the description is absent from
\* the payload, validate_and_clean_current_weather returns None and the fetch
\* returns an error dict.
C9_RequiredFields ==
    RequiredAbsent =>
        /\ vpc # "input" => ~cleaned.valid
        /\ vpc \in {"fetch_weather_data", "fetch_comprehensive_weather"} =>
              fetched.kind = "error"

\* Humidity, pressure or wind speed is a number outside its bound.
OutOfBound ==
    \/ IsNumber(PayloadHumidity) /\ ~InRange(PayloadHumidity, 0, 10000)
    \/ IsNumber(PayloadPressure) /\ ~InRange(PayloadPressure, 80000, 120000)
    \/ /\ units \in {"imperial", "metric"}
       /\ IsNumber(raw_data.wind_speed)
       /\ raw_data.wind_speed.n > SpecMaxWind(units)

\* C10: when humidity, pressure or wind speed is present and outside its
\* bound, validate_and_clean_current_weather returns None.
C10_OutOfRangeField == (vpc = "cleaned" /\ OutOfBound) => ~cleaned.valid


\* ------------------------------------------------------------------------
\* The forecast tiers of fetch_comprehensive_weather (src/core/api.py)
\* ------------------------------------------------------------------------
MaxClimate == 8     \* entries in a climate response (the request asks cnt = 8)
MaxRolling == 3     \* 3-hour entries in a rolling response

SecondsPerDay == 86400

\* datetime.fromtimestamp(ts).strftime('%Y-%m-%d'), as a day number: the
\* local time zone is taken to have no offset and no daylight saving.
Date(ts) == ts \div SecondsPerDay

At(day, hour) == day * SecondsPerDay + hour * 3600

\* a / b rounded to the nearest integer, halves to the even one, as round().
RoundDivEven(a, b) ==
    LET q == a \div b
        r == a % b
    IN IF 2 * r < b THEN q
       ELSE IF 2 * r > b THEN q + 1
       ELSE IF q % 2 = 0 THEN q ELSE q + 1

\* round(x, 1) of a number in hundredths.
Round1(x) == 10 * RoundDivEven(x, 10)

\* The dict built at lines 407-425, 500-518, 575-593 and 601-619, by the keys
\* the model follows.  No line writes an isSynthetic key: reading it gives
\* nothing.  origin is not a key: it records which lines built the dict.
DailyItem(dt, tmin, tmax, pop, description, main, icon, origin) ==
    [dt |-> dt, temp_min |-> tmin, temp_max |-> tmax, pop |-> pop,
     description |-> description, main |-> main, icon |-> icon,
     isSynthetic |-> "absent", origin |-> origin]

\* The conditions and icons the forecast responses carry.
Descriptions == {"light rain", "clear sky"}
Icons == {"10d", "01d"}

\* str.title() on the strings that occur.
Title(str) ==
    CASE str = "light rain" -> "Light Rain"
      [] str = "clear sky" -> "Clear Sky"
      [] str = "light" -> "Light"
      [] str = "clear" -> "Clear"
      [] OTHER -> str

\* str.split()[0] on the strings that occur.
FirstWord(str) ==
    CASE str = "light rain" -> "light"
      [] str = "clear sky" -> "clear"
      [] OTHER -> str

\* The orders in which a set of these strings can be iterated.
Orders(S) == {sq \in [1..Cardinality(S) -> S] : \A x \in S : \E i \in 1..Cardinality(S) : sq[i] = x}
\* The 'main' values are those the rolling tier derives at line 509.
SetOrders ==
    [conditions : Orders(Descriptions), icons : Orders(Icons),
     mains : Orders({Title(FirstWord(d)) : d \in Descriptions})]

\* values.count(x)
Count(values, x) == Cardinality({i \in 1..Len(values) : values[i] = x})

\* max(set(values), key=values.count): of the values with the highest count,
\* the one the iteration of the set reaches first.
MostCommon(values, order) ==
    LET present == SelectSeq(order, LAMBDA x : Count(values, x) > 0)
        best == CHOOSE i \in 1..Len(present) :
                    /\ \A j \in 1..Len(present) :
                          Count(values, present[j]) <= Count(values, present[i])
                    /\ \A j \in 1..(i - 1) :
                          Count(values, present[j]) < Count(values, present[i])
    IN present[best]

\* f'Predicted {most_common_condition}'
PredictedDescription(main) ==
    CASE main = "Light" -> "Predicted Light"
      [] main = "Clear" -> "Predicted Clear"
      [] OTHER -> "Predicted"

\* Variant: an entry counts as today's only up to the present moment.
DatedToday_UpToNow(item, n) == item.dt # 0 /\ Date(item.dt) = Date(n) /\ item.dt <= n

\* `if dt:` and the comparison with today's date.
DatedToday(item, n) == item.dt # 0 /\ Date(item.dt) = Date(n)

\* Variant: the list is cut to 7 entries before today's are skipped.
process_daily_forecast_SliceFirst(data, n) ==
    LET first == SubSeq(data.list, 1, Min(7, Len(data.list)))
        kept == SelectSeq(first, LAMBDA item : ~DatedToday(item, n))
    IN IF \E i \in 1..Len(kept) : ~kept[i].ok
       THEN <<>>
       ELSE [i \in 1..Len(kept) |->
                DailyItem(kept[i].dt, Round1(kept[i].temp_min),
                          Round1(kept[i].temp_max),
                          kept[i].rain + kept[i].snow,
                          Title(kept[i].description), kept[i].main, kept[i].icon,
                          "climate")]

\* _process_daily_forecast.  An entry that is not skipped and whose fields
\* make the extraction raise (weather == [], a null temperature) ends the
\* loop in the except branch.
process_daily_forecast(data, n) ==
    LET kept == SelectSeq(data.list, LAMBDA item : ~DatedToday(item, n))
        daily_forecast ==
            [i \in 1..Len(kept) |->
                DailyItem(kept[i].dt, Round1(kept[i].temp_min),
                          Round1(kept[i].temp_max),
                          kept[i].rain + kept[i].snow,
                          Title(kept[i].description), kept[i].main, kept[i].icon,
                          "climate")]
    IN IF \E i \in 1..Len(kept) : ~kept[i].ok
       THEN <<>>
       ELSE SubSeq(daily_forecast, 1, Min(7, Len(daily_forecast)))

\* sorted(daily_summaries.items()): ISO date strings sort as the dates do.
RECURSIVE SortedDates(_)
SortedDates(S) ==
    IF S = {} THEN <<>>
    ELSE LET d == CHOOSE x \in S : \A y \in S : x <= y
         IN <<d>> \o SortedDates(S \ {d})

\* main.get('temp', 0)
TempOrZero(item) == IF item.temp.k = "num" THEN item.temp.n ELSE 0

SeqMin(sq) == CHOOSE x \in {sq[i] : i \in 1..Len(sq)} : \A i \in 1..Len(sq) : x <= sq[i]
SeqMax(sq) == CHOOSE x \in {sq[i] : i \in 1..Len(sq)} : \A i \in 1..Len(sq) : x >= sq[i]

\* _process_5day_forecast_to_daily: entries with a dt and not dated today,
\* grouped by date; one dict per date, in date order.
process_5day_forecast_to_daily(data, n, order) ==
    LET dated == SelectSeq(data.list, LAMBDA item : item.dt # 0 /\ ~DatedToday(item, n))
        dates == SortedDates({Date(dated[i].dt) : i \in 1..Len(dated)})
        OfDate(d) == SelectSeq(dated, LAMBDA item : Date(item.dt) = d)
        temps(d) == [i \in 1..Len(OfDate(d)) |-> TempOrZero(OfDate(d)[i])]
        pops(d) == <<0>> \o [i \in 1..Len(OfDate(d)) |-> OfDate(d)[i].pop]
        conditions(d) == [i \in 1..Len(OfDate(d)) |-> OfDate(d)[i].description]
        icons(d) == [i \in 1..Len(OfDate(d)) |-> OfDate(d)[i].icon]
        most_common_condition(d) == MostCommon(conditions(d), order.conditions)
        most_common_icon(d) == MostCommon(icons(d), order.icons)
    IN IF \E i \in 1..Len(dated) : ~dated[i].ok
       THEN <<>>
       ELSE [k \in 1..Len(dates) |->
                DailyItem(OfDate(dates[k])[1].dt,
                          Round1(SeqMin(temps(dates[k]))),
                          Round1(SeqMax(temps(dates[k]))),
                          SeqMax(pops(dates[k])),
                          Title(most_common_condition(dates[k])),
                          Title(FirstWord(most_common_condition(dates[k]))),
                          most_common_icon(dates[k]), "rolling")]

RECURSIVE SumOf(_, _)
SumOf(sq, field) ==
    IF sq = <<>> THEN 0 ELSE sq[1][field] + SumOf(Tail(sq), field)

\* Variant: the variation keeps growing after the fourth placeholder.
temp_variation_Uncapped(i) == -200 + i * 50

\* temp_variation of the i-th placeholder, i = 0, 1, ...
temp_variation(i) == IF i < 4 THEN -200 + i * 50 ELSE 0

\* _extend_forecast_with_placeholders
extend_forecast_with_placeholders(existing_forecast, target_days, n, order) ==
    LET len == Len(existing_forecast)
        days_needed == target_days - len
        conditions == [i \in 1..len |-> existing_forecast[i].main]
        icons == [i \in 1..len |-> existing_forecast[i].icon]
        most_common_condition == MostCommon(conditions, order.mains)
        most_common_icon == MostCommon(icons, order.icons)
        Predicted(i) ==
            DailyItem(n + (len + i + 1) * SecondsPerDay,
                      10 * RoundDivEven(SumOf(existing_forecast, "temp_min")
                                          + temp_variation(i) * len, 10 * len),
                      10 * RoundDivEven(SumOf(existing_forecast, "temp_max")
                                          + temp_variation(i) * len, 10 * len),
                      10, PredictedDescription(most_common_condition),
                      most_common_condition, most_common_icon, "placeholder")
        Unavailable(i) ==
            DailyItem(n + (i + 1) * SecondsPerDay, 7000, 8000, 0,
                      "Forecast Unavailable", "Unknown", "01d", "placeholder")
    IN IF len >= target_days
       THEN SubSeq(existing_forecast, 1, target_days)
       ELSE existing_forecast \o
            [j \in 1..days_needed |->
                IF len > 0 THEN Predicted(j - 1) ELSE Unavailable(j - 1)]

\* ------------------------------------------------------------------------
\* get_coordinates, fetch_weather_data and fetch_comprehensive_weather
\* ------------------------------------------------------------------------
\* The error dicts _make_api_request returns.
RequestErrors == {ErrInvalidKey, ErrNotFound, ErrFailed}

\* `if x`: an error dict and a non-empty body are truthy, [] and {} are not.
ReplyTruthy(r) == r.kind = "error" \/ (r.kind = "list" /\ r.len > 0) \/ r.kind = "body"

\* `"error" in x`: a key of the error dict, no member of a list of locations.
HasError(r) == r.kind = "error"

\* The city the caller asks for.
city == JStr(<<"c">>)

\* get_coordinates, lines 242-257, for the value raw_data of its request.
\* name is location.get('name', city).
get_coordinates(raw) ==
    IF ReplyTruthy(raw) /\ ~HasError(raw)
    THEN IF ReplyTruthy(raw) /\ raw.len > 0
         THEN [kind |-> "location", error |-> "", len |-> 0,
               name |-> IF raw.name.k = "absent" THEN city ELSE raw.name]
         ELSE [kind |-> "error", error |-> ErrNotFound, len |-> 0, name |-> JAbsent]
    ELSE raw

\* retry_on_failure(max_retries=3) around fetch_weather_data: the body is
\* called again after an exception while fewer than max_retries + 1 calls
\* have been made.
FetchRetries == 3

\* What the geocoding request can return: an error dict, or the decoded list
\* of at most one location (limit = 1), with its display name or without.
GeoReplies ==
    {[kind |-> "error", error |-> e, len |-> 0, name |-> JAbsent] : e \in RequestErrors}
    \cup {[kind |-> "list", error |-> "", len |-> 0, name |-> JAbsent]}
    \cup {[kind |-> "list", error |-> "", len |-> 1, name |-> nm] :
            nm \in {JStr(<<"G">>), JAbsent}}

CurrentBody(nm, hasMain, temp, weather) ==
    [name |-> nm, has_main |-> hasMain,
     main |-> [temp |-> temp, humidity |-> IF hasMain THEN JNum(5000) ELSE JAbsent,
               pressure |-> IF hasMain THEN JNum(101300) ELSE JAbsent],
     weather |-> weather,
     description |-> IF weather = "list" THEN JStr(<<"c">>) ELSE JAbsent,
     wind_speed |-> JAbsent, wind_deg |-> JAbsent, visibility |-> JNum(1000000),
     other |-> nm.k # "absent"]

\* What the current-conditions request can return: an error dict, the empty
\* body, a body without main, a body the validator rejects (temperature 0 or
\* out of range), a body it accepts.
CurrentReplies ==
    {[kind |-> "error", error |-> e, raw |-> NoPayload] : e \in RequestErrors}
    \cup {[kind |-> "body", error |-> "", raw |-> b] :
            b \in {NoPayload,
                   CurrentBody(JStr(<<"P">>), FALSE, JAbsent, "list"),
                   CurrentBody(JStr(<<"P">>), TRUE, JNum(0), "list"),
                   CurrentBody(JStr(<<"P">>), TRUE, JNum(99900), "list"),
                   CurrentBody(JStr(<<"P">>), TRUE, JNum(6850), "list")}}

\* Entries of a climate response: dated today, dated tomorrow, without dt
\* and with a maximum above every unit system's bound, and one whose weather
\* list is empty.
ClimateItems(n) ==
    {[dt |-> At(Date(n), 12), ok |-> TRUE, temp_min |-> 5012, temp_max |-> 7049,
      rain |-> 0, snow |-> 0, description |-> "clear sky", main |-> "Clear", icon |-> "01d"],
     [dt |-> At(Date(n) + 1, 12), ok |-> TRUE, temp_min |-> 4000, temp_max |-> 6000,
      rain |-> 120, snow |-> 0, description |-> "light rain", main |-> "Rain", icon |-> "10d"],
     [dt |-> 0, ok |-> TRUE, temp_min |-> 4520, temp_max |-> 14050,
      rain |-> 0, snow |-> 30, description |-> "clear sky", main |-> "Clear", icon |-> "01d"],
     [dt |-> At(Date(n) + 2, 12), ok |-> FALSE, temp_min |-> 4100, temp_max |-> 6100,
      rain |-> 0, snow |-> 0, description |-> "", main |-> "", icon |-> ""]}

\* 3-hour entries of a rolling response: one dated today; three dated
\* tomorrow, of which two differ in condition and icon and the third has no
\* temperature; one two days ahead and one four days ahead; one without dt;
\* one whose weather list is empty.  The temperatures round to an even
\* number of tenths, so that no mean of up to three days falls halfway
\* between two tenths, where round() follows the binary float.
RollingItems(n) ==
    {[dt |-> At(Date(n), 21), ok |-> TRUE, temp |-> JNum(5500), pop |-> 20,
      description |-> "clear sky", icon |-> "01d"],
     [dt |-> At(Date(n) + 1, 9), ok |-> TRUE, temp |-> JNum(5022), pop |-> 10,
      description |-> "light rain", icon |-> "10d"],
     [dt |-> At(Date(n) + 1, 15), ok |-> TRUE, temp |-> JNum(6041), pop |-> 40,
      description |-> "clear sky", icon |-> "01d"],
     [dt |-> At(Date(n) + 1, 18), ok |-> TRUE, temp |-> JAbsent, pop |-> 0,
      description |-> "clear sky", icon |-> "01d"],
     [dt |-> At(Date(n) + 2, 12), ok |-> TRUE, temp |-> JNum(4700), pop |-> 0,
      description |-> "light rain", icon |-> "10d"],
     [dt |-> At(Date(n) + 4, 12), ok |-> TRUE, temp |-> JNum(4400), pop |-> 0,
      description |-> "clear sky", icon |-> "01d"],
     [dt |-> 0, ok |-> TRUE, temp |-> JNum(5800), pop |-> 30,
      description |-> "clear sky", icon |-> "01d"],
     [dt |-> At(Date(n) + 3, 12), ok |-> FALSE, temp |-> JNum(5900), pop |-> 0,
      description |-> "", icon |-> ""]}

Lists(items, max) == UNION {[1..l -> items] : l \in 0..max}

\* What a forecast request can return: an error dict, the empty body {}, or a
\* body with other keys whose list holds the given entries.
ForecastReplies(items, max) ==
    {[kind |-> "error", error |-> e, list |-> <<>>] : e \in RequestErrors}
    \cup {[kind |-> "empty", error |-> "", list |-> <<>>]}
    \cup {[kind |-> "body", error |-> "", list |-> l] : l \in Lists(items, max)}

NowInputs == {At(10, 1), At(10, 23)}

\* The instance is idle while a fetch is followed request by request.
ApiOff ==
    /\ max_retries = 1
    /\ min_request_interval = 0
    /\ since_last = ClockCap
    /\ since_http = ClockCap
    /\ pc = [t \in Threads |-> "idle"]
    /\ attempt = [t \in Threads |-> 0]
    /\ remaining = [t \in Threads |-> 0]
    /\ slept = [t \in Threads |-> FALSE]
    /\ result = [t \in Threads |-> NoneVal]
    /\ trace = [t \in Threads |-> <<>>]
    /\ reqs = [t \in Threads |-> 0]
    /\ elapsed = 0
    /\ httpCount = 0 /\ httpGap = 0
    /\ leaveCount = 0 /\ leaveGap = 0
    /\ rlRun = 0 /\ rlRunSleeps = 0

\* A caller has just called one of the two fetches.
InitFetch ==
    /\ ApiOff
    /\ ValOff
    /\ DayOff
    /\ RetryOff
    /\ fpc = "geocoding"
    /\ method \in {"fetch_weather_data", "fetch_comprehensive_weather"}
    /\ now \in NowInputs
    /\ calls = <<>>
    /\ tries = 1
    /\ geocoding_raw = NoCoords
    /\ coords = NoCoords
    /\ current_data = NoCurrent
    /\ forecast_data = NoForecast
    /\ fallback_data = NoForecast
    /\ set_order = NoOrder
    /\ out = FetchReturned("none", "", NoData, <<>>)

FromReturned(r) == FetchReturned(r.kind, r.error, r.data, <<>>)

\* location.name of the result: cleaned_current.get('city', city), and the
\* cleaned record always has the key (line 366).
location_name(cleaned_current) == cleaned_current.city

\* coords = self.get_coordinates(city, state); `if "error" in coords`;
\* coords['lat'] (lines 160-167 and 276-281).  Subscripting the empty list
\* raises TypeError: fetch_comprehensive_weather lets it through,
\* retry_on_failure calls the body of fetch_weather_data again.
GetCoordinates ==
    /\ fpc = "geocoding"
    /\ \E raw \in GeoReplies :
          /\ calls' = Append(calls, "geocoding")
          /\ geocoding_raw' = raw
          /\ coords' = get_coordinates(raw)
          /\ IF HasError(get_coordinates(raw))
             THEN /\ out' = FetchReturned("error", get_coordinates(raw).error, NoData, <<>>)
                  /\ fpc' = "done"
                  /\ tries' = tries
             ELSE IF get_coordinates(raw).kind = "location"
             THEN /\ fpc' = "current"
                  /\ UNCHANGED <<out, tries>>
             ELSE IF method = "fetch_weather_data" /\ tries < FetchRetries + 1
             THEN /\ tries' = tries + 1
                  /\ fpc' = "geocoding"
                  /\ out' = out
             ELSE /\ out' = FetchReturned("raised", "TypeError", NoData, <<>>)
                  /\ fpc' = "done"
                  /\ tries' = tries
    /\ UNCHANGED <<method, now, current_data, forecast_data, fallback_data, set_order>>
    /\ UNCHANGED <<apiVars, valVars, dayVars, retryVars>>

\* The current-conditions request and what each fetch does with its answer
\* (lines 169-184 and 292-302).
CurrentRequest ==
    /\ fpc = "current"
    /\ \E reply \in CurrentReplies :
          /\ calls' = Append(calls, "current")
          /\ current_data' = reply
          /\ IF HasError(reply)
             THEN /\ out' = FetchReturned("error", reply.error, NoData, <<>>)
                  /\ fpc' = "done"
                  /\ cleaned' = cleaned
             ELSE IF method = "fetch_weather_data"
             THEN /\ out' = FromReturned(fetch_weather_data_tail(units, reply.raw))
                  /\ fpc' = "done"
                  /\ cleaned' = cleaned
             ELSE IF fetch_comprehensive_current(units, reply.raw).kind = "error"
             THEN /\ out' = FromReturned(fetch_comprehensive_current(units, reply.raw))
                  /\ fpc' = "done"
                  /\ cleaned' = cleaned
             ELSE /\ cleaned' = validate_and_clean_current_weather(units, reply.raw)
                  /\ fpc' = "climate"
                  /\ out' = out
    /\ UNCHANGED <<method, now, tries, geocoding_raw, coords, forecast_data, fallback_data,
                   set_order>>
    /\ UNCHANGED <<units, raw_data, vpc, fetched>>
    /\ UNCHANGED <<apiVars, dayVars, retryVars>>

\* `if forecast_data and "error" not in forecast_data`
TierAnswered(reply) == ReplyTruthy(reply) /\ ~HasError(reply)

\* The climate request (lines 314-319): its days are the forecast when the
\* request answered, else the rolling request follows.
ClimateRequest ==
    /\ fpc = "climate"
    /\ \E reply \in ForecastReplies(ClimateItems(now), MaxClimate) :
          /\ calls' = Append(calls, "climate")
          /\ forecast_data' = reply
          /\ IF TierAnswered(reply)
             THEN /\ out' = FetchReturned("result", "", cleaned.data,
                                          process_daily_forecast(reply, now))
                  /\ fpc' = "done"
             ELSE /\ fpc' = "rolling"
                  /\ out' = out
    /\ UNCHANGED <<method, now, tries, geocoding_raw, coords, current_data, fallback_data,
                   set_order>>
    /\ UNCHANGED <<apiVars, valVars, dayVars, retryVars>>

\* Variant: the rolling tier's days are returned as they are.
PadTo7_Never(daily_forecast, n, order) == daily_forecast

\* lines 337-340
PadTo7(daily_forecast, n, order) ==
    IF Len(daily_forecast) < 7
    THEN extend_forecast_with_placeholders(daily_forecast, 7, n, order)
    ELSE daily_forecast

\* The rolling request (lines 321-343).
RollingRequest ==
    /\ fpc = "rolling"
    /\ \E reply \in ForecastReplies(RollingItems(now), MaxRolling), order \in SetOrders :
          /\ calls' = Append(calls, "rolling")
          /\ fallback_data' = reply
          /\ set_order' = order
          /\ out' = FetchReturned("result", "", cleaned.data,
                        IF TierAnswered(reply)
                        THEN PadTo7(process_5day_forecast_to_daily(reply, now, order),
                                    now, order)
                        ELSE <<>>)
          /\ fpc' = "done"
    /\ UNCHANGED <<method, now, tries, geocoding_raw, coords, current_data, forecast_data>>
    /\ UNCHANGED <<apiVars, valVars, dayVars, retryVars>>

NextFetch ==
    \/ GetCoordinates
    \/ CurrentRequest
    \/ ClimateRequest
    \/ RollingRequest

SpecFetch == InitFetch /\ [][NextFetch]_vars

\* ------------------------------------------------------------------------
\* Claims about the fetches
\* ------------------------------------------------------------------------
EmptyGeocodingList == geocoding_raw.kind = "list" /\ geocoding_raw.len = 0

\* C11: when the geocoding request answers with the empty list,
\* get_coordinates returns the location-not-found error, and the fetch that
\* called it returns that error.
C11_LocationNotFound ==
    EmptyGeocodingList =>
        /\ coords = [kind |-> "error", error |-> ErrNotFound, len |-> 0, name |-> JAbsent]
        /\ fpc = "done"
        /\ out.kind = "error"
        /\ out.error = ErrNotFound

\* C12: every call of fetch_weather_data and of fetch_comprehensive_weather
\* returns a populated result or a dict with an 'error' entry; it never
\* raises and never returns anything else.
C12_ResultOrError ==
    fpc = "done" => out.kind \in {"record", "result", "error"}

Comprehensive == method = "fetch_comprehensive_weather"

RequestOrder == <<"geocoding", "current", "climate", "rolling">>

\* The current-conditions request failed, the structure of its answer is
\* bad, or the validator rejects it.
CurrentFailed ==
    \/ current_data.kind = "error"
    \/ /\ current_data.kind = "body"
       /\ \/ ~validate_basic_structure(current_data.raw)
          \/ ~validate_and_clean_current_weather(units, current_data.raw).valid

\* C13: fetch_comprehensive_weather issues its requests in the order
\* geocoding, current conditions, climate, rolling; after a geocoding error
\* no later request is sent; when current conditions fail no forecast
\* request is sent and an error is returned.
C13_RequestOrder ==
    Comprehensive =>
        /\ Len(calls) <= 4
        /\ calls = SubSeq(RequestOrder, 1, Len(calls))
        /\ coords.kind = "error" => calls = <<"geocoding">>
        /\ CurrentFailed =>
              /\ calls = <<"geocoding", "current">>
              /\ fpc = "done"
              /\ out.kind = "error"

\* The validator rejected a well-formed answer: the fetch ended there.
C13_Witness ==
    /\ Comprehensive
    /\ current_data.kind = "body"
    /\ validate_basic_structure(current_data.raw)
    /\ ~validate_and_clean_current_weather(units, current_data.raw).valid
    /\ calls = <<"geocoding", "current">>
    /\ out = FetchReturned("error", ErrCurrentValidation, NoData, <<>>)

Requested(endpoint) == \E i \in 1..Len(calls) : calls[i] = endpoint

\* The days the climate tier produced: none when its request failed.
ClimateDays ==
    IF TierAnswered(forecast_data)
    THEN process_daily_forecast(forecast_data, now)
    ELSE <<>>

\* C14: the rolling endpoint is requested if and only if the climate tier
\* produced no usable forecast day (its request failed, its list is empty,
\* or every entry is dated today).
C14_RollingIff ==
    (Comprehensive /\ fpc = "done" /\ Requested("climate")) =>
        (Requested("rolling") <=> ClimateDays = <<>>)

StartOfToday == now - (now % SecondsPerDay)

\* The dt of the entry lies on the current date.
OnCurrentDate(e) ==
    e.dt # 0 /\ StartOfToday <= e.dt /\ e.dt < StartOfToday + SecondsPerDay

NoneToday(days) == \A i \in 1..Len(days) : ~OnCurrentDate(days[i])

\* The days the rolling tier produced: none when its request failed.
RollingDays ==
    IF TierAnswered(fallback_data)
    THEN process_5day_forecast_to_daily(fallback_data, now, set_order)
    ELSE <<>>

\* C15: no entry dated on the current date is in the output of
\* _process_daily_forecast or of _process_5day_forecast_to_daily, and none
\* is in the forecast that fetch_comprehensive_weather returns.
C15_NoToday ==
    /\ NoneToday(ClimateDays)
    /\ NoneToday(RollingDays)
    /\ NoneToday(out.forecast)

\* A climate response with an entry dated today and others: the others are
\* the forecast.
C15_Witness ==
    /\ fpc = "done"
    /\ forecast_data.kind = "body"
    /\ \E i \in 1..Len(forecast_data.list) : OnCurrentDate(forecast_data.list[i])
    /\ Len(out.forecast) >= 2

\* The real days tiers 1 and 2 yielded together.
RealDays == IF ClimateDays # <<>> THEN ClimateDays ELSE RollingDays

\* forecast is the real days followed by placeholders, target entries in all.
PaddedTo(forecast, real, target) ==
    /\ Len(forecast) = target
    /\ SubSeq(forecast, 1, Len(real)) = real
    /\ \A i \in (Len(real) + 1)..target : forecast[i].origin = "placeholder"

\* C16: whenever tiers 1 and 2 together yield fewer than 7 days (also when
\* the climate tier alone returns 1 to 6 days), the returned forecast has
\* exactly 7 entries: the n real days first, then 7 - n placeholder days.
C16_AlwaysSeven ==
    (Comprehensive /\ fpc = "done" /\ out.kind = "result" /\ Len(RealDays) < 7) =>
        PaddedTo(out.forecast, RealDays, 7)

\* C17: every entry made by the placeholder tier carries isSynthetic = true,
\* every provider-derived entry carries isSynthetic = false, in the forecast
\* that is returned.
C17_SyntheticFlag ==
    \A i \in 1..Len(out.forecast) :
        out.forecast[i].isSynthetic =
            (IF out.forecast[i].origin = "placeholder" THEN "true" ELSE "false")

\* The request answered with an error, an empty body or an empty list.
NoDataReply(reply) ==
    \/ reply.kind \in {"error", "empty"}
    \/ reply.kind = "body" /\ reply.list = <<>>

CurrentPopulated ==
    /\ out.kind = "result"
    /\ out.error = ""
    /\ out.data = cleaned.data
    /\ out.data.temperature.k = "float"

\* C18 as stated: geocoding and current conditions succeed and both forecast
\* requests answer with no data (an error or an empty list): the result has
\* populated current conditions, forecast = [] and no error.
C18_Original ==
    (Comprehensive /\ fpc = "done"
        /\ NoDataReply(forecast_data) /\ NoDataReply(fallback_data)) =>
        (CurrentPopulated /\ out.forecast = <<>>)

\* Seven placeholder days with the fixed defaults.
SevenUnavailable(forecast) ==
    /\ Len(forecast) = 7
    /\ \A i \in 1..7 :
          /\ forecast[i].origin = "placeholder"
          /\ forecast[i].temp_min = 7000
          /\ forecast[i].temp_max = 8000
          /\ forecast[i].dt = now + i * SecondsPerDay

\* C18, amended: geocoding and current conditions succeed and no forecast
\* request answers with data.  The result has populated current conditions
\* and no error; its forecast is [] when the climate request answered with
\* an empty list (the rolling request is then not made) and when the rolling
\* request answered with an error or an empty body, and it is seven
\* placeholder days when the rolling request answered with an empty list.
C18_Degraded ==
    (Comprehensive /\ fpc = "done" /\ NoDataReply(forecast_data)
        /\ (fallback_data.kind = "none" \/ NoDataReply(fallback_data))) =>
        /\ CurrentPopulated
        /\ IF fallback_data.kind = "body"
           THEN SevenUnavailable(out.forecast)
           ELSE out.forecast = <<>>

\* Both forecast requests failed: current conditions and an empty forecast.
C18_Witness ==
    /\ Comprehensive
    /\ fpc = "done"
    /\ forecast_data.kind = "error"
    /\ fallback_data.kind = "error"
    /\ CurrentPopulated
    /\ out.forecast = <<>>

\* The entries of the climate response that are not dated today, in the
\* provider's order.
NotToday == SelectSeq(forecast_data.list, LAMBDA item : ~OnCurrentDate(item))

\* Every entry carries what the extraction reads (a non-empty weather list,
\* numeric temperatures and amounts).
WellFormed(list) == \A i \in 1..Len(list) : list[i].ok

\* The forecast entry was made from the provider's entry.
MadeFrom(e, item) ==
    /\ e.origin = "climate"
    /\ e.dt = item.dt
    /\ e.temp_min = Round1(item.temp_min)
    /\ e.temp_max = Round1(item.temp_max)
    /\ e.pop = item.rain + item.snow

\* C19: for a climate response of well-formed entries the climate tier
\* returns the first at most 7 entries that are not dated today, in the
\* provider's order; an 8-entry response with exactly one entry dated today
\* gives a forecast of exactly 7 entries, none of them a placeholder.
C19_ClimateFirstSeven ==
    (Comprehensive /\ fpc = "done" /\ TierAnswered(forecast_data)
        /\ WellFormed(forecast_data.list)) =>
        /\ Len(out.forecast) = Min(7, Len(NotToday))
        /\ \A i \in 1..Len(out.forecast) : MadeFrom(out.forecast[i], NotToday[i])
        /\ (Len(forecast_data.list) = 8 /\ Len(NotToday) = 7) => Len(out.forecast) = 7

\* Eight entries, the second one dated today, two kinds of entry among the
\* seven others.
C19_Witness ==
    /\ Comprehensive
    /\ fpc = "done"
    /\ WellFormed(forecast_data.list)
    /\ Len(forecast_data.list) = 8
    /\ Len(NotToday) = 7
    /\ OnCurrentDate(forecast_data.list[2])
    /\ forecast_data.list[1].dt = 0
    /\ forecast_data.list[8].dt # 0
    /\ Len(out.forecast) = 7


\* ------------------------------------------------------------------------
\* WeatherDataValidator._validate_daily_forecast_day
\* ------------------------------------------------------------------------
\* _is_valid_temperature: float(temp) within the bounds of the unit system;
\* None, a string that is no numeral and NaN are not valid.
is_valid_temperature(u, temp) ==
    /\ temp.k \in {"num", "numstr"}
    /\ MinTemp(u) <= temp.n
    /\ temp.n <= MaxTemp(u)

\* _is_valid_humidity: int(humidity) within 0..100.  int() cuts the fraction
\* of a number off and raises for a numeral with a fraction.
is_valid_humidity(humidity) ==
    /\ \/ humidity.k = "num"
       \/ humidity.k = "numstr" /\ humidity.n % 100 = 0
    /\ min_humidity <= Truncate(humidity.n)
    /\ Truncate(humidity.n) <= max_humidity

\* _is_valid_pressure
is_valid_pressure(pressure) ==
    /\ pressure.k \in {"num", "numstr"}
    /\ min_pressure <= pressure.n
    /\ pressure.n <= max_pressure

\* _is_valid_wind_speed
is_valid_wind_speed(u, wind_speed) ==
    /\ wind_speed.k \in {"num", "numstr"}
    /\ 0 <= wind_speed.n
    /\ wind_speed.n <= MaxWind(u)

\* The value itself where the check passes, else None (lines 430-432).
KeptIf(value, passes) == IF passes THEN PyFloat(value.n) ELSE PyNone

\* _validate_daily_forecast_day.  round(temp_min, 1) raises for a string,
\* also for a numeral: the except branch returns None.
validate_daily_forecast_day(u, day) ==
    IF ~is_valid_temperature(u, day.temp_min) \/ ~is_valid_temperature(u, day.temp_max)
    THEN NoDayForecast
    ELSE IF day.weather # "list"
    THEN NoDayForecast
    ELSE IF day.temp_min.k # "num" \/ day.temp_max.k # "num"
    THEN NoDayForecast
    ELSE [valid |-> TRUE,
          temp_min |-> PyFloat(Round1(day.temp_min.n)),
          temp_max |-> PyFloat(Round1(day.temp_max.n)),
          humidity |-> KeptIf(day.humidity, is_valid_humidity(day.humidity)),
          pressure |-> KeptIf(day.pressure, is_valid_pressure(day.pressure)),
          wind_speed |-> KeptIf(day.wind_speed, is_valid_wind_speed(u, day.wind_speed))]

DayTempMaxInputs(u) ==
    {JAbsent, JNum((MinTemp(u) + MaxTemp(u)) \div 2 + 512), JNum(MaxTemp(u)),
     JNum(MaxTemp(u) + 1)}

DayHumidityInputs == HumidityInputs \cup {JNull, JNum(-100), JNum(15000)}

DayPressureInputs == {JAbsent, JNum(101300), JNum(120001)}

DayWindInputs == {JAbsent, JNum(500), JNum(-100)}

\* A day of a daily list is about to be validated.
InitDay ==
    /\ ApiOff
    /\ FetchOff
    /\ RetryOff
    /\ units \in UnitSystems
    /\ raw_data = NoPayload
    /\ vpc = "off"
    /\ cleaned = [valid |-> FALSE, data |-> NoData]
    /\ fetched = Returned("none", "", NoData)
    /\ dpc = "input"
    /\ \E tmin \in TempInputs(units), tmax \in DayTempMaxInputs(units),
          w \in {"absent", "empty", "list"}, h \in DayHumidityInputs,
          p \in DayPressureInputs, ws \in DayWindInputs :
          day_data = [temp_min |-> tmin, temp_max |-> tmax, weather |-> w,
                      humidity |-> h, pressure |-> p, wind_speed |-> ws]
    /\ day_forecast = NoDayForecast

\* day_forecast = self._validate_daily_forecast_day(day_data)
ValidateDay ==
    /\ dpc = "input"
    /\ dpc' = "validated"
    /\ day_forecast' = validate_daily_forecast_day(units, day_data)
    /\ UNCHANGED day_data
    /\ UNCHANGED <<apiVars, valVars, fetchVars, retryVars>>

NextDay == ValidateDay

SpecDay == InitDay /\ [][NextDay]_vars

\* v is a number outside lo..hi.
Outside(v, lo, hi) == v.k = "num" /\ (v.n < lo \/ v.n > hi)

\* The temperature is a number within the bounds of the unit system.
DayTempInRange(v) == v.k = "num" /\ SpecMinTemp(units) <= v.n /\ v.n <= SpecMaxTemp(units)

\* The humidity is a number outside 0..100.
DayHumidityOutOfRange == Outside(day_data.humidity, 0, 10000)

\* C20: _validate_daily_forecast_day is lenient field by field.  A day with
\* a weather entry whose temp min and max are in range and whose humidity is
\* out of range gives an entry with humidity null and every other field
\* kept; a day whose temp min or max is missing or out of range gives None.
C20_FieldLenient ==
    dpc = "validated" =>
        /\ (/\ DayTempInRange(day_data.temp_min)
            /\ DayTempInRange(day_data.temp_max)
            /\ day_data.weather = "list"
            /\ DayHumidityOutOfRange) =>
              /\ day_forecast.valid
              /\ day_forecast.humidity = PyNone
              /\ day_forecast.temp_min = PyFloat(Round1(day_data.temp_min.n))
              /\ day_forecast.temp_max = PyFloat(Round1(day_data.temp_max.n))
              /\ InRange(day_data.pressure, 80000, 120000) =>
                    day_forecast.pressure = PyFloat(day_data.pressure.n)
        /\ (\E t \in {day_data.temp_min, day_data.temp_max} :
                \/ t.k \in {"absent", "null"}
                \/ Outside(t, SpecMinTemp(units), SpecMaxTemp(units))) =>
              ~day_forecast.valid


\* ------------------------------------------------------------------------
\* retry_on_failure (src/core/decorators.py)
\* ------------------------------------------------------------------------
\* The arguments of the decorator: the defaults (3, 1.0, 2.0), which is also
\* what fetch_weather_data passes, and others around them.  Seconds are
\* whole numbers.
RetryArgs == [max_retries : {0, 1, 2, 3}, delay : {1, 2}, backoff : {1, 2, 3}]

\* What a call of the wrapped function can do: raise one of two exceptions,
\* return a result, return an error dict.
FuncOutcomes ==
    {[kind |-> "raise", value |-> e] : e \in {"TypeError", "ValueError"}}
    \cup {[kind |-> "return", value |-> v] : v \in {"result", "error dict"}}

\* The wrapper of a decorated function has just been called.
InitRetry ==
    /\ ApiOff
    /\ ValOff
    /\ FetchOff
    /\ DayOff
    /\ wpc = "call"
    /\ retry_args \in RetryArgs
    /\ current_delay = retry_args.delay
    /\ last_exception = "None"
    /\ func_results = <<>>
    /\ slept_for = <<>>
    /\ wrapped = NoOutcome

\* Variant: the delay stays what it was.
NextDelay_Constant(d, backoff) == d

\* current_delay *= backoff
NextDelay(d, backoff) == d * backoff

\* One pass of the loop up to the sleep: func is called; its value is
\* returned; or its exception is kept and, after the last attempt, raised
\* again once the loop has ended.  attempt, of range(max_retries + 1), is
\* the number of calls made before this one.
CallFunc ==
    /\ wpc = "call"
    /\ \E o \in FuncOutcomes :
          /\ func_results' = Append(func_results, o)
          /\ IF o.kind = "return"
             THEN /\ wrapped' = o
                  /\ wpc' = "done"
                  /\ last_exception' = last_exception
             ELSE /\ last_exception' = o.value
                  /\ IF Len(func_results) < retry_args.max_retries
                     THEN /\ wpc' = "sleep"
                          /\ wrapped' = wrapped
                     ELSE /\ wpc' = "done"
                          /\ wrapped' = [kind |-> "raise", value |-> o.value]
    /\ UNCHANGED <<retry_args, current_delay, slept_for>>
    /\ UNCHANGED <<apiVars, valVars, fetchVars, dayVars>>

\* time.sleep(current_delay); current_delay *= backoff
SleepBeforeRetry ==
    /\ wpc = "sleep"
    /\ slept_for' = Append(slept_for, current_delay)
    /\ current_delay' = NextDelay(current_delay, retry_args.backoff)
    /\ wpc' = "call"
    /\ UNCHANGED <<retry_args, last_exception, func_results, wrapped>>
    /\ UNCHANGED <<apiVars, valVars, fetchVars, dayVars>>

NextRetry ==
    \/ CallFunc
    \/ SleepBeforeRetry

SpecRetry == InitRetry /\ [][NextRetry]_vars

RECURSIVE Power(_, _)
Power(b, k) == IF k = 0 THEN 1 ELSE b * Power(b, k - 1)

Raised(o) == o.kind = "raise"

\* C29: the wrapped function is called at most max_retries + 1 times, and
\* again only after a call that raised; the wrapper returns what the first
\* call that does not raise returns, an error dict included; it sleeps
\* delay * backoff^k after the k-th failed call (k = 0, 1, ...), not after
\* the last of max_retries + 1; and when all of these have raised it raises
\* the exception of the last one.
C29_RetryContract ==
    wpc # "off" =>
        LET calls_made == Len(func_results)
            failed == Cardinality({i \in 1..calls_made : Raised(func_results[i])})
        IN /\ calls_made <= retry_args.max_retries + 1
           /\ \A i \in 1..(calls_made - 1) : Raised(func_results[i])
           /\ \A k \in 1..Len(slept_for) :
                 slept_for[k] = retry_args.delay * Power(retry_args.backoff, k - 1)
           /\ Len(slept_for) = (IF failed = retry_args.max_retries + 1 \/ wpc = "sleep"
                             THEN failed - 1 ELSE failed)
           /\ wpc = "call" => calls_made = failed
           /\ wpc = "done" =>
                 /\ calls_made >= 1
                 /\ wrapped = func_results[calls_made]
                 /\ Raised(wrapped) => calls_made = retry_args.max_retries + 1

\* The default arguments: four calls raised, with sleeps of 1, 2 and 4
\* seconds between them, and the wrapper raised the last exception.
C29_Witness ==
    /\ wpc = "done"
    /\ retry_args = [max_retries |-> 3, delay |-> 1, backoff |-> 2]
    /\ Len(func_results) = 4
    /\ func_results[1].value = "TypeError"
    /\ wrapped = [kind |-> "raise", value |-> "ValueError"]
    /\ slept_for = <<1, 2, 4>>

\* ------------------------------------------------------------------------
\* Further claims about the forecast of fetch_comprehensive_weather
\* ------------------------------------------------------------------------
\* The temperature lies within the bounds of the active unit system.
WithinTempBounds(x) == SpecMinTemp(units) <= x /\ x <= SpecMaxTemp(units)

\* C21: every forecast entry in the result of fetch_comprehensive_weather
\* has passed the forecast-level cleaning: its temp_min and temp_max lie
\* within the temperature bounds of the active unit system.
C21_ForecastCleaned ==
    (Comprehensive /\ fpc = "done") =>
        \A i \in 1..Len(out.forecast) :
            /\ WithinTempBounds(out.forecast[i].temp_min)
            /\ WithinTempBounds(out.forecast[i].temp_max)


\* C24: a successful fetch_comprehensive_weather returns, as the name of the
\* location, the display name get_coordinates took from the geocoding answer.
C24_GeocodingName ==
    (Comprehensive /\ fpc = "done" /\ out.kind = "result") =>
        location_name(out.data) = coords.name

\* The 3-hour entries of the rolling response dated on day d.
EntriesOn(d) == SelectSeq(fallback_data.list, LAMBDA item : item.dt # 0 /\ Date(item.dt) = d)

\* Of the values with the highest count, the one that occurs first.
FirstSeenMostFrequent(values) ==
    values[CHOOSE i \in 1..Len(values) :
              /\ \A j \in 1..Len(values) : Count(values, values[j]) <= Count(values, values[i])
              /\ \A j \in 1..(i - 1) : Count(values, values[j]) < Count(values, values[i])]

RollingAnswered == Comprehensive /\ fpc = "done" /\ TierAnswered(fallback_data)

\* C25: the description and the icon of a day of the rolling tier are the
\* most frequent ones among the day's 3-hour entries, and of equally
\* frequent ones the first in the order of the response.
C25_FirstSeenWins ==
    RollingAnswered =>
        \A i \in 1..Len(out.forecast) :
            out.forecast[i].origin = "rolling" =>
                LET entries == EntriesOn(Date(out.forecast[i].dt))
                    conditions == [k \in 1..Len(entries) |-> entries[k].description]
                    icons == [k \in 1..Len(entries) |-> entries[k].icon]
                IN /\ out.forecast[i].description = Title(FirstSeenMostFrequent(conditions))
                   /\ out.forecast[i].icon = FirstSeenMostFrequent(icons)

\* The temperatures the entries carry, in hundredths.
CarriedTemps(entries) ==
    {entries[k].temp.n : k \in {j \in 1..Len(entries) : entries[j].temp.k = "num"}}

\* x is y up to the rounding to one decimal.
RoundsTo(x, y) == x - y <= 5 /\ y - x <= 5

\* C26: the temp_min and temp_max of a day of the rolling tier are the lowest
\* and the highest temperature its 3-hour entries carry (to one decimal),
\* an entry without a temperature counting for nothing, and its pop is their
\* highest pop.
C26_MinMaxOfCarried ==
    RollingAnswered =>
        \A i \in 1..Len(out.forecast) :
            out.forecast[i].origin = "rolling" =>
                LET entries == EntriesOn(Date(out.forecast[i].dt))
                    temps == CarriedTemps(entries)
                IN /\ temps # {} =>
                        /\ \E t \in temps :
                              /\ \A u \in temps : t <= u
                              /\ RoundsTo(out.forecast[i].temp_min, t)
                        /\ \E t \in temps :
                              /\ \A u \in temps : t >= u
                              /\ RoundsTo(out.forecast[i].temp_max, t)
                   /\ \E k \in 1..Len(entries) :
                          /\ out.forecast[i].pop = entries[k].pop
                          /\ \A j \in 1..Len(entries) : entries[j].pop <= entries[k].pop

\* The drift of the i-th placeholder as the specification gives it, in
\* hundredths: -2 + 0.5 i for i < 4, nothing from then on.
Drift(i) == IF i < 4 THEN 50 * i - 200 ELSE 0

RealOf(forecast) == SelectSeq(forecast, LAMBDA e : e.origin # "placeholder")
PlaceholdersOf(forecast) == SelectSeq(forecast, LAMBDA e : e.origin = "placeholder")

\* len * x is exactly total + len * Drift(i): x is the mean plus the drift.
MeanPlusDrift(x, total, len, i) == len * x = total + len * Drift(i)

\* x is a whole number of tenths, and the nearest one to the mean plus the drift.
MeanPlusDriftRounded(x, total, len, i) ==
    /\ x % 10 = 0
    /\ 2 * (len * x - (total + len * Drift(i))) <= 10 * len
    /\ 2 * ((total + len * Drift(i)) - len * x) <= 10 * len

\* The description names a condition no other condition of the real days
\* outnumbers.
PredictsMostFrequent(description, real) ==
    LET conditions == [k \in 1..Len(real) |-> real[k].main]
    IN \E k \in 1..Len(real) :
          /\ \A j \in 1..Len(real) :
                Count(conditions, conditions[j]) <= Count(conditions, conditions[k])
          /\ description = PredictedDescription(conditions[k])

Defaults(p) ==
    /\ p.temp_min = 7000
    /\ p.temp_max = 8000
    /\ p.description = "Forecast Unavailable"

\* C27 as stated: the i-th placeholder's temp_min and temp_max are exactly
\* the means of the real days' temp_min and temp_max plus d(i).
C27_Original ==
    RollingAnswered =>
        LET real == RealOf(out.forecast)
            placeholders == PlaceholdersOf(out.forecast)
            len == Len(real)
        IN \A j \in 1..Len(placeholders) :
              IF len > 0
              THEN /\ MeanPlusDrift(placeholders[j].temp_min,
                                    SumOf(real, "temp_min"), len, j - 1)
                   /\ MeanPlusDrift(placeholders[j].temp_max,
                                    SumOf(real, "temp_max"), len, j - 1)
                   /\ PredictsMostFrequent(placeholders[j].description, real)
                   /\ placeholders[j].pop = 10
              ELSE Defaults(placeholders[j])

\* C27, amended: with at least one real day the i-th placeholder (i = 0, 1,
\* ...) has as temp_min and temp_max the means of the real days' temp_min
\* and temp_max plus d(i), rounded to one decimal, d(i) = -2 + 0.5 i for
\* i < 4 and 0 from then on, the description 'Predicted <a most frequent
\* condition of the real days>' and pop 0.1; with no real day every
\* placeholder has temp_min 70, temp_max 80, 'Forecast Unavailable'.
C27_Placeholders ==
    RollingAnswered =>
        LET real == RealOf(out.forecast)
            placeholders == PlaceholdersOf(out.forecast)
            len == Len(real)
        IN \A j \in 1..Len(placeholders) :
              IF len > 0
              THEN /\ MeanPlusDriftRounded(placeholders[j].temp_min,
                                           SumOf(real, "temp_min"), len, j - 1)
                   /\ MeanPlusDriftRounded(placeholders[j].temp_max,
                                           SumOf(real, "temp_max"), len, j - 1)
                   /\ PredictsMostFrequent(placeholders[j].description, real)
                   /\ placeholders[j].pop = 10
              ELSE Defaults(placeholders[j])

\* Three real days whose temp_min have a mean that is no whole number of
\* tenths, followed by four placeholders.
C27_Witness ==
    /\ RollingAnswered
    /\ Len(RealOf(out.forecast)) = 3
    /\ Len(PlaceholdersOf(out.forecast)) = 4
    /\ SumOf(RealOf(out.forecast), "temp_min") % 30 # 0

\* C28: the forecast _extend_forecast_with_placeholders returns, which
\* fetch_comprehensive_weather returns in its turn, is in strictly increasing
\* order of calendar date: no two entries share a date and every placeholder
\* is dated after every real day.
C28_IncreasingDates ==
    RollingAnswered =>
        \A i \in 1..Len(out.forecast) : \A j \in 1..Len(out.forecast) :
            i < j => Date(out.forecast[i].dt) < Date(out.forecast[j].dt)

\* ------------------------------------------------------------------------
\* Further claims about the validator of current conditions
\* ------------------------------------------------------------------------
NullOrWithin(v, lo, hi) == v.k = "none" \/ (lo <= v.n /\ v.n <= hi)

\* C22: in every record validate_and_clean_current_weather returns, each
\* numeric field is null or a validated in-range value (humidity 0..100,
\* pressure 800..1200 hPa, wind direction 0..359), and a field the payload
\* does not carry is null, never a default.
C22_NullOrInRange ==
    (vpc = "cleaned" /\ cleaned.valid) =>
        /\ NullOrWithin(cleaned.data.humidity, 0, 100)
        /\ NullOrWithin(cleaned.data.pressure, 80000, 120000)
        /\ NullOrWithin(cleaned.data.wind_direction, 0, 359)
        /\ Missing(PayloadHumidity) => cleaned.data.humidity = PyNone
        /\ Missing(PayloadPressure) => cleaned.data.pressure = PyNone
        /\ Missing(raw_data.wind_speed) => cleaned.data.wind_speed = PyNone
        /\ Missing(raw_data.wind_deg) => cleaned.data.wind_direction = PyNone
        /\ Missing(raw_data.visibility) => cleaned.data.visibility = PyNone

\* ------------------------------------------------------------------------
\* Further claims about _make_api_request
\* ------------------------------------------------------------------------
\* C23: a call whose attempts were all answered 429, max_retries of them,
\* returns the error that names rate limiting ('Rate limit exceeded', as
\* test_max_retries_exceeded expects), not the request-failed error.
C23_RateLimitedError ==
    \A t \in Threads :
        LET st == Statuses(trace[t]) IN
        (/\ pc[t] = "returned"
         /\ Len(st) = max_retries
         /\ \A i \in 1..Len(st) : st[i] = "429")
        => result[t] = "Rate limit exceeded"

\* ------------------------------------------------------------------------
\* Further claims about the two record validators
\* ------------------------------------------------------------------------
\* C30: for every unit system and every cleaned record, the public
\* validate_weather_data accepts the record if and only if
\* _validate_weather_data accepts it.
C30_ValidatorsAgree ==
    vpc = "validate_weather_data" =>
        (cleaned.valid <=> validate_weather_data_private(units, cleaned.data))
====
